---- MODULE Spec2Model ----
(***************************************************************************)
(* Discord channel adapter (hexabot-channel-discord).                      *)
(*                                                                         *)
(* The model follows src/index.channel.ts (DiscordChannelHandler, the      *)
(* revision of lines 1-755) and the event wrapper it imports               *)
(* (DiscordEventWrapper, src/unnamed/part_005).                            *)
(*                                                                         *)
(*  - Spec     : the inbound side. init() / handleSettingsUpdate register  *)
(*               the gateway listeners; the gateway delivers raw messages  *)
(*               and interactions to every registered listener; a button   *)
(*               listener runs in three steps separated by its awaits.     *)
(*  - SendSpec : the outbound side. sendMessage formats an envelope and    *)
(*               issues the typing indicator and the sends, one awaited    *)
(*               call per step.                                            *)
(*  - HostSpec : the host's calls on a wrapper it holds: getPayload,       *)
(*               getMessage and getUserData.                               *)
(*                                                                         *)
(* Strings of the program that the code takes apart (message content) are  *)
(* sequences of tokens; opaque strings (ids, urls, labels) are strings or  *)
(* numbers.  "" stands for null / undefined of a string field.             *)
(***************************************************************************)
EXTENDS Integers, Sequences, FiniteSets, TLC

VARIABLES
    settings,     \* stored channel settings [bot_token, app_id]
    clientToken,  \* token the gateway client is logged in with, "" if none
    listeners,    \* number of listener sets registered on this.client
    inbox,        \* <<>> or <<raw>>: the raw message last delivered
    clicked,      \* <<>> or <<raw>>: the raw interaction last delivered
    dispatched,   \* number of listeners the last raw event was handed to
    pending,      \* button listener runs in flight: Seq([run, pc])
    bus,          \* publications on the event bus for the last raw event
    calls,        \* Discord API calls issued for the last operation
    sent,         \* <<>> or <<[envelope, options, channel]>>: last sendMessage
    payload,      \* <<>> or <<payload>>: what _formatMessage returned
    result,       \* <<>> or <<[status, mid]>>: how sendMessage settled
    initLog,      \* <<>> or <<outcome>>: how the promise of the last init() settled
    inits,        \* init() runs in flight: Seq([pc, token])
    event,        \* <<>> or <<adapter>>: the wrapper the host holds
    reply         \* <<>> or <<[call, thrown, value]>>: the host's last call

vars == << settings, clientToken, listeners, inbox, clicked, dispatched,
           pending, bus, calls, sent, payload, result, initLog, inits, event,
           reply >>

(***************************************************************************)
(* Bounds of the model.                                                    *)
(***************************************************************************)
MaxInits == 2        \* init() runs that register listeners
MaxContent == 2      \* tokens in a raw message's content
MaxAttachments == 1  \* attachments on a raw message
MaxRow == 2          \* buttons in the row of a clicked message
MaxElements == 2     \* elements of a list / carousel envelope
MaxButtons == 1      \* buttons / quick replies of an envelope
MaxRunning == 2      \* init() runs in flight at the same time

(***************************************************************************)
(* Small helpers on sequences.                                             *)
(***************************************************************************)
RECURSIVE SeqsUpTo(_, _)
SeqsUpTo(S, n) ==
    IF n = 0 THEN { <<>> }
    ELSE LET shorter == SeqsUpTo(S, n - 1)
         IN shorter \cup { Append(s, x) : s \in shorter, x \in S }

RECURSIVE Repeat(_, _)
\* the result of calling f[1], f[2], .., f[n] in order and concatenating
Repeat(f, n) == IF n = 0 THEN <<>> ELSE Repeat(f, n - 1) \o f[n]

(***************************************************************************)
(* Raw gateway events.                                                     *)
(***************************************************************************)
\* discord.js ChannelType members a raw event can come from.  GuildText and
\* DM are the two the code names; a thread and a category stand for the
\* further kinds of guild channel, with and without messages.
ChannelTypes == { "DM", "GuildText", "PublicThread", "GuildCategory" }

GuildChannelTypes == ChannelTypes \ { "DM" }

\* channel.isTextBased(): the channel kinds that hold messages
isTextBased(type) == type # "GuildCategory"

\* content tokens: "@" is the bot mention <@id>, " " white space, "x" a letter
ContentTokens == { "@", " ", "x" }

RawIds == { "m1", "m2" }

RawMessages ==
    [ id : RawIds,
      system : BOOLEAN,
      channelType : ChannelTypes,
      mentionsBot : BOOLEAN,          \* message.mentions.has(client.user)
      content : SeqsUpTo(ContentTokens, MaxContent),
      attachments : 0..MaxAttachments, \* message.attachments.size
      authorBot : BOOLEAN ]

(***************************************************************************)
(* DiscordEventWrapper (src/unnamed/part_005).                             *)
(***************************************************************************)
\* an _init that takes a message with text for a text message whatever it
\* has attached
InitMessageAdapter_TextWins(m) ==
    [ eventType |-> IF m.authorBot THEN "echo" ELSE "message",
      messageType |-> IF m.attachments > 0 /\ m.content = << >>
                      THEN "attachments" ELSE "message",
      rawId |-> m.id ]

\* _init for a raw message ('content' in event)
InitMessageAdapter(m) ==
    [ eventType |-> IF m.authorBot THEN "echo" ELSE "message",
      messageType |-> IF m.attachments > 0 THEN "attachments" ELSE "message",
      rawId |-> m.id ]

\* _init for a raw button interaction ('customId' in event)
InitInteractionAdapter(i) ==
    [ eventType |-> "message", messageType |-> "postback", rawId |-> i.id ]

setMessageType(adapter, type) == [ adapter EXCEPT !.messageType = type ]

\* EventWrapper.getMessageType: a message type that was never set is reported
\* as unknown
getMessageType(adapter) ==
    IF adapter.messageType = "" THEN "unknown" ELSE adapter.messageType

getEventType(adapter) == adapter.eventType

\* getId that forgets the prefix of attachments events
getId_NoPrefix(adapter) == adapter.rawId

getId(adapter) ==
    IF getMessageType(adapter) = "attachments"
    THEN "attachment-" \o adapter.rawId
    ELSE adapter.rawId

(***************************************************************************)
(* Publication on the host's event bus.                                    *)
(***************************************************************************)
Publication(hook, adapter, run) ==
    [ hook |-> hook,
      eventType |-> getEventType(adapter),
      messageType |-> getMessageType(adapter),
      id |-> getId(adapter),
      raw |-> adapter.rawId,
      run |-> run ]

\* DiscordChannelHandler.emitEvent for an already wrapped raw event
emitEvent(adapter, run) ==
    IF getEventType(adapter) # "unknown"
    THEN << Publication("hook:chatbot:" \o getEventType(adapter), adapter, run) >>
    ELSE << >>

(***************************************************************************)
(* The MessageCreate listener.                                             *)
(***************************************************************************)
\* content.replaceAll(botMention, '')
replaceAllMention(content) == SelectSeq(content, LAMBDA t : t # "@")

RECURSIVE trimStart(_)
trimStart(s) ==
    IF s # <<>> /\ Head(s) = " " THEN trimStart(Tail(s)) ELSE s

RECURSIVE trimEnd(_)
trimEnd(s) ==
    IF s # <<>> /\ s[Len(s)] = " " THEN trimEnd(SubSeq(s, 1, Len(s) - 1)) ELSE s

\* String.prototype.trim
trim(s) == trimEnd(trimStart(s))

\* the message as the listener leaves it after the mention has been extracted
StripMention(m) ==
    IF m.channelType = "GuildText"
    THEN [ m EXCEPT !.content = trim(replaceAllMention(m.content)) ]
    ELSE m

\* the mention test applied without looking at the kind of channel
Ignored_AnyChannel(m) ==
    \/ m.system
    \/ ~isTextBased(m.channelType)
    \/ ~m.mentionsBot

\* TRUE when one of the listener's three early returns is taken
Ignored(m) ==
    \/ m.system
    \/ ~isTextBased(m.channelType)
    \/ (m.channelType = "GuildText" /\ ~m.mentionsBot)

\* the publications of one run of the listener on raw message m
MessageCreateListener(m, run) ==
    IF Ignored(m) THEN << >>
    ELSE LET msg == StripMention(m)
             textEvent ==
                 IF msg.attachments > 0 /\ msg.content # << >>
                 THEN << Publication("hook:chatbot:message",
                            setMessageType(InitMessageAdapter(msg), "message"),
                            run) >>
                 ELSE << >>
         IN textEvent \o emitEvent(InitMessageAdapter(msg), run)

(***************************************************************************)
(* Button interactions and the row rewrite.                                *)
(***************************************************************************)
CustomIds == { "a", "b" }

LinkUrl == "https://example.org"

\* a button of a message the bot sent, as Discord hands it back
ButtonComponents ==
    [ customId : CustomIds, url : { "" }, label : { "pick" },
      style : { "Primary", "Secondary" }, disabled : { FALSE }, emoji : { "" } ]
    \cup
    [ customId : { "" }, url : { LinkUrl }, label : { "open" },
      style : { "Link" }, disabled : { FALSE }, emoji : { "" } ]

\* custom ids of the non-link buttons of a row
RowCustomIds(row) == { row[k].customId : k \in 1..Len(row) } \ { "" }

\* Discord refuses a message in which two components share a custom id
UniqueCustomIds(row) ==
    \A j, k \in 1..Len(row) :
        (j # k /\ row[j].customId # "") => row[j].customId # row[k].customId

ButtonRows ==
    { row \in SeqsUpTo(ButtonComponents, MaxRow) : UniqueCustomIds(row) }

\* a click on one of the non-link buttons of the first row of a message
ButtonInteractions ==
    { i \in [ id : { "i1" }, isButton : { TRUE }, customId : CustomIds,
              row : ButtonRows ] : i.customId \in RowCustomIds(i.row) }

\* any other interaction (select menu, slash command, ..)
OtherInteractions ==
    [ id : { "i2" }, isButton : { FALSE }, customId : { "" }, row : { << >> } ]

RawInteractions == ButtonInteractions \cup OtherInteractions

\* a click on a button that is not in the first row of its message (the
\* handler itself sends one row per message, other senders may send more)
StrayInteractions ==
    { i \in [ id : { "i1" }, isButton : { TRUE }, customId : CustomIds,
              row : ButtonRows ] : i.customId \notin RowCustomIds(i.row) }

\* the rewrite that leaves link buttons disabled too
DisabledButton_LinksToo(component, clickedId) ==
    [ customId |-> component.customId,
      url |-> component.url,
      label |-> component.label,
      style |-> component.style,
      disabled |-> TRUE,
      emoji |-> IF component.customId = clickedId THEN "check" ELSE "" ]

\* the button the forEach callback of disableButtonInteractions builds
DisabledButton(component, clickedId) ==
    LET isSelected == component.customId = clickedId
    IN [ customId |-> component.customId,
         url |-> component.url,
         label |-> component.label,
         style |-> component.style,
         disabled |-> IF component.url # "" THEN FALSE ELSE TRUE,
         emoji |-> IF isSelected THEN "check" ELSE "" ]

\* an ActionRowBuilder holding the given buttons
ActionRow(buttons) == [ type |-> "ActionRow", components |-> buttons ]

\* newRow of disableButtonInteractions; i.row holds the components of
\* interaction.message.components[0]
disableButtonInteractions(i) ==
    ActionRow([ k \in 1..Len(i.row) |-> DisabledButton(i.row[k], i.customId) ])

(***************************************************************************)
(* State after construction.                                               *)
(***************************************************************************)
BotTokens == { "", "tokA", "tokB" }

AppIds == { "", "app" }

SettingsSet == [ bot_token : BotTokens, app_id : AppIds ]

Init ==
    /\ settings \in SettingsSet
    /\ clientToken = ""
    /\ listeners = 0
    /\ inbox = << >>
    /\ clicked = << >>
    /\ dispatched = 0
    /\ pending = << >>
    /\ bus = << >>
    /\ calls = << >>
    /\ sent = << >>
    /\ payload = << >>
    /\ result = << >>
    /\ initLog = << >>
    /\ inits = << >>
    /\ event = << >>
    /\ reply = << >>

outbound == << sent, payload, result >>

hostSide == << event, reply >>

inboundLogs == << inbox, clicked, dispatched, pending, bus, calls >>

inboundLogsButCalls == << inbox, clicked, dispatched, pending, bus >>

(***************************************************************************)
(* init() and handleSettingsUpdate.                                        *)
(***************************************************************************)
\* no delivery is being handled and nothing of the last one is on record
Idle ==
    /\ inbox = << >>
    /\ clicked = << >>
    /\ pending = << >>
    /\ sent = << >>
    /\ event = << >>

\* no delivery is on record and no init() is in flight
Quiet == Idle /\ inits = << >>

\* an init() whose catch block throws the error again
InitOutcome_Rethrow(failed) ==
    IF failed \in { "none", "credentials" } THEN "resolved" ELSE "rejected"

\* how the promise of init() settles when it leaves its try block at step
\* failed ("none": it ran to the end): the blank credentials are logged before
\* a plain return, every error is caught and logged
InitOutcome(failed) == "resolved"

RemoveAt(s, k) == SubSeq(s, 1, k - 1) \o SubSeq(s, k + 1, Len(s))

\* an init() run as it is up to its first await, this.getSettings()
StartedInit == [ pc |-> "getSettings", token |-> "" ]

\* init() is called (by the host at start-up) and runs up to its first await.
\* A run takes its steps between two deliveries: they touch nothing a
\* listener run or a send in flight reads
init ==
    /\ Idle
    /\ Len(inits) < MaxRunning
    /\ inits' = Append(inits, StartedInit)
    /\ UNCHANGED << settings, clientToken, listeners, initLog, inboundLogs,
                    outbound, hostSide >>

\* the handler of hook:discord_channel:* : the new settings are in the store
\* when it runs; it calls init() and returns without awaiting it
handleSettingsUpdate ==
    /\ Idle
    /\ Len(inits) < MaxRunning
    /\ \E s \in SettingsSet :
        /\ settings' = s
        /\ inits' = Append(inits, StartedInit)
        /\ UNCHANGED << clientToken, listeners, initLog, inboundLogs,
                        outbound, hostSide >>

\* getSettings resolved: with a blank credential the run logs and returns,
\* otherwise it goes on to client.destroy()
GetSettingsDone ==
    /\ Idle
    /\ \E k \in 1..Len(inits) :
        /\ inits[k].pc = "getSettings"
        /\ IF settings.bot_token = "" \/ settings.app_id = ""
           THEN /\ inits' = RemoveAt(inits, k)
                /\ initLog' = << InitOutcome("credentials") >>
           ELSE /\ inits' = [ inits EXCEPT ![k] = [ pc |-> "destroy",
                                                    token |-> settings.bot_token ] ]
                /\ UNCHANGED initLog
    /\ UNCHANGED << settings, clientToken, listeners, inboundLogs, outbound,
                    hostSide >>

\* client.destroy() resolved: the client is logged out and the run goes on to
\* client.login(settings.bot_token)
DestroyDone ==
    /\ Idle
    /\ \E k \in 1..Len(inits) :
        /\ inits[k].pc = "destroy"
        /\ inits' = [ inits EXCEPT ![k].pc = "login" ]
        /\ clientToken' = ""
    /\ UNCHANGED << settings, listeners, initLog, inboundLogs, outbound,
                    hostSide >>

\* client.login() resolved: the client is logged in with the run's token and
\* the run registers its three listeners with client.on, then returns
LoginDone ==
    /\ Idle
    /\ listeners < MaxInits
    /\ \E k \in 1..Len(inits) :
        /\ inits[k].pc = "login"
        /\ clientToken' = inits[k].token
        /\ listeners' = listeners + 1
        /\ inits' = RemoveAt(inits, k)
        /\ initLog' = << InitOutcome("none") >>
    /\ UNCHANGED << settings, inboundLogs, outbound, hostSide >>

\* the step an init() run awaits rejected: the error is caught and logged and
\* the run returns.  A failed destroy leaves the client logged in or not, a
\* failed login leaves it logged out
InitStepFailed ==
    /\ Idle
    /\ \E k \in 1..Len(inits) :
        /\ inits' = RemoveAt(inits, k)
        /\ initLog' = << InitOutcome(inits[k].pc) >>
        /\ CASE inits[k].pc = "getSettings" -> UNCHANGED clientToken
             [] inits[k].pc = "destroy" -> clientToken' \in { clientToken, "" }
             [] OTHER -> clientToken' = ""
    /\ UNCHANGED << settings, listeners, inboundLogs, outbound, hostSide >>

(***************************************************************************)
(* Gateway deliveries.                                                     *)
(***************************************************************************)
\* a plain direct message of a user: no attachment, no mention, one letter
PlainMessages ==
    [ id : RawIds,
      system : { FALSE },
      channelType : { "DM" },
      mentionsBot : { FALSE },
      content : { << "x" >> },
      attachments : { 0 },
      authorBot : { FALSE } ]

\* the gateway emits MessageCreate: every registered listener runs, in
\* registration order, each to completion (the listener never awaits).  The
\* message arrives while the handler is quiet, or, a plain message of the
\* channel of the click, while listener runs of a button click still await
\* a call
MessageCreate ==
    /\ clientToken # ""
    /\ inbox = << >>
    /\ Quiet \/ (clicked # << >> /\ pending # << >>)
    /\ \E m \in IF clicked = << >> THEN RawMessages ELSE PlainMessages :
        /\ inbox' = << m >>
        /\ dispatched' = listeners
        /\ bus' = bus \o
                  Repeat([ run \in 1..listeners |-> MessageCreateListener(m, run) ],
                         listeners)
        /\ UNCHANGED << settings, clientToken, listeners, initLog, inits, hostSide,
                        clicked, calls, pending, outbound >>

\* the gateway emits InteractionCreate: every registered listener runs up to
\* its first await, i.e. each one issues interaction.deferUpdate()
InteractionCreate ==
    /\ clientToken # ""
    /\ Quiet
    /\ \E i \in RawInteractions :
        /\ clicked' = << i >>
        /\ inbox' = << >>
        /\ dispatched' = listeners
        /\ bus' = << >>
        /\ IF i.isButton
           THEN /\ calls' = [ run \in 1..listeners |->
                                [ op |-> "deferUpdate", run |-> run,
                                  components |-> << >>,
                                  state |-> "pending" ] ]
                /\ pending' = [ run \in 1..listeners |->
                                  [ run |-> run, pc |-> "deferUpdate" ] ]
           ELSE /\ calls' = << >>
                /\ pending' = << >>
        /\ UNCHANGED << settings, clientToken, listeners, initLog, inits, hostSide,
                        outbound >>

\* calls once the call of kind op awaited by listener run has settled
Settled(run, op, state) ==
    [ c \in 1..Len(calls) |->
        IF calls[c].run = run /\ calls[c].op = op
        THEN [ calls[c] EXCEPT !.state = state ]
        ELSE calls[c] ]

\* interaction.editReply({ ...interaction, components: [newRow] }) as issued
EditReply(run) ==
    [ op |-> "editReply", run |-> run,
      components |-> << disableButtonInteractions(clicked[1]) >>,
      state |-> "pending" ]

\* deferUpdate resolved and the run went on to publish the event before the
\* row rewrite
DeferUpdateDone_PublishesFirst ==
    \E k \in 1..Len(pending) :
        /\ pending[k].pc = "deferUpdate"
        /\ \A c \in 1..Len(calls) : calls[c].op # "editReply"
        /\ calls' = Append(Settled(pending[k].run, "deferUpdate", "resolved"),
                           EditReply(pending[k].run))
        /\ bus' = bus \o emitEvent(InitInteractionAdapter(clicked[1]),
                                   pending[k].run)
        /\ pending' = [ pending EXCEPT ![k].pc = "editReply" ]
        /\ UNCHANGED << settings, clientToken, listeners, initLog, inits, hostSide,
                        inbox, clicked, dispatched, outbound >>

\* deferUpdate resolved: the listener goes on to disableButtonInteractions,
\* which issues interaction.editReply with the rewritten row.  Discord takes
\* one acknowledgement per interaction: once the deferUpdate of one listener
\* run has resolved, that of every other run on the same interaction is
\* refused
DeferUpdateDone ==
    \E k \in 1..Len(pending) :
        /\ pending[k].pc = "deferUpdate"
        /\ \A c \in 1..Len(calls) : calls[c].op # "editReply"
        /\ calls' = Append(Settled(pending[k].run, "deferUpdate", "resolved"),
                           EditReply(pending[k].run))
        /\ pending' = [ pending EXCEPT ![k].pc = "editReply" ]
        /\ UNCHANGED << settings, clientToken, listeners, initLog, inits, hostSide,
                        inbox, clicked, dispatched, bus, outbound >>

\* editReply resolved: the listener goes on to emitEvent(interaction)
EditReplyDone ==
    \E k \in 1..Len(pending) :
        /\ pending[k].pc = "editReply"
        /\ calls' = Settled(pending[k].run, "editReply", "resolved")
        /\ bus' = bus \o emitEvent(InitInteractionAdapter(clicked[1]),
                                   pending[k].run)
        /\ pending' = RemoveAt(pending, k)
        /\ UNCHANGED << settings, clientToken, listeners, initLog, inits, hostSide,
                        inbox, clicked, dispatched, outbound >>

\* the call a listener run awaits (deferUpdate or editReply) rejected: the
\* listener's promise rejects and the run ends without a publication
AwaitRejected ==
    \E k \in 1..Len(pending) :
        /\ calls' = Settled(pending[k].run, pending[k].pc, "rejected")
        /\ pending' = RemoveAt(pending, k)
        /\ UNCHANGED << settings, clientToken, listeners, initLog, inits, hostSide,
                        inbox, clicked, dispatched, bus, outbound >>

\* every listener run of the last delivery has settled, the host's subscribers
\* have taken its publications and are done with the wrapper they hold, and
\* the promise of the last sendMessage has settled: the handler is idle again
Settle ==
    /\ pending = << >>
    /\ ~Idle
    /\ sent # << >> => result # << >>
    /\ inbox' = << >>
    /\ clicked' = << >>
    /\ dispatched' = 0
    /\ bus' = << >>
    /\ calls' = << >>
    /\ sent' = << >>
    /\ payload' = << >>
    /\ result' = << >>
    /\ event' = << >>
    /\ reply' = << >>
    /\ UNCHANGED << settings, clientToken, listeners, initLog, inits, pending >>

Next ==
    \/ init
    \/ handleSettingsUpdate
    \/ GetSettingsDone
    \/ DestroyDone
    \/ LoginDone
    \/ InitStepFailed
    \/ MessageCreate
    \/ InteractionCreate
    \/ DeferUpdateDone
    \/ EditReplyDone
    \/ AwaitRejected
    \/ Settle

Spec == Init /\ [][Next]_vars

(***************************************************************************)
(* Outgoing envelopes (StdOutgoingEnvelope of the host).                   *)
(***************************************************************************)
PostbackButton ==
    [ type |-> "postback", title |-> "Buy", payload |-> "BUY", url |-> "" ]

WebUrlButton ==
    [ type |-> "web_url", title |-> "Open", payload |-> "",
      url |-> "https://shop.example" ]

EnvelopeButtons == { PostbackButton, WebUrlButton }

EnvelopeQuickReplies == { [ title |-> "Yes", payload |-> "YES" ] }

TitleOf(i) == "title-" \o ToString(i)

UrlOf(i) == "https://example.org/" \o ToString(i)

ImageOf(i) == "image-ref-" \o ToString(i)

\* element i of a list / carousel: its url and image fields may be missing
ElementsOfLen(n) ==
    { [ i \in 1..n |->
          [ title |-> TitleOf(i),
            url |-> IF f[i][1] THEN UrlOf(i) ELSE "",
            image |-> IF f[i][2] THEN ImageOf(i) ELSE "" ] ] :
      f \in [ 1..n -> BOOLEAN \X BOOLEAN ] }

ElementSeqs == UNION { ElementsOfLen(n) : n \in 0..MaxElements }

\* pagination.total, .skip, .limit
Paginations ==
    { [ total |-> 50, skip |-> 0, limit |-> 10 ],
      [ total |-> 50, skip |-> 40, limit |-> 10 ],
      [ total |-> 0, skip |-> 0, limit |-> 10 ] }

Envelope(format, text, buttons, quickReplies, elements, optButtons, pagination) ==
    [ format |-> format,
      text |-> text,                 \* message.text
      buttons |-> buttons,           \* message.buttons
      quickReplies |-> quickReplies, \* message.quickReplies
      elements |-> elements,         \* message.elements
      optButtons |-> optButtons,     \* message.options.buttons: <<>> or <<buttons>>
      pagination |-> pagination ]    \* message.pagination: <<>> or <<pagination>>

ListFormats == { "list", "carousel" }

\* Discord takes at most five components in one action row
MaxRowComponents == 5

\* one quick reply more than a row takes, each with its own title and payload
ManyQuickReplies ==
    [ k \in 1..(MaxRowComponents + 1) |->
        [ title |-> "Option " \o ToString(k), payload |-> "OPTION_" \o ToString(k) ] ]

Envelopes ==
    { Envelope("text", "hello", << >>, << >>, << >>, << >>, << >>) }
    \cup { Envelope("quickReplies", "choose", << >>, ManyQuickReplies, << >>, << >>, << >>),
           Envelope("attachment", "", << >>, ManyQuickReplies, << >>, << >>, << >>) }
    \cup { Envelope("unsupported_format", "hello", << >>, << >>, << >>, << >>, << >>) }
    \cup { Envelope("buttons", "choose", bs, << >>, << >>, << >>, << >>) :
             bs \in SeqsUpTo(EnvelopeButtons, MaxButtons) }
    \cup { Envelope("quickReplies", "choose", << >>, qs, << >>, << >>, << >>) :
             qs \in SeqsUpTo(EnvelopeQuickReplies, MaxButtons) }
    \cup { Envelope("attachment", "", << >>, qs, << >>, << >>, << >>) :
             qs \in SeqsUpTo(EnvelopeQuickReplies, MaxButtons) }
    \cup { Envelope(f, "", << >>, << >>, es, ob, pg) :
             f \in ListFormats,
             es \in ElementSeqs,
             ob \in { << >> } \cup { << bs >> : bs \in SeqsUpTo(EnvelopeButtons, MaxButtons) },
             pg \in { << >> } \cup { << p >> : p \in Paginations } }

(***************************************************************************)
(* The outgoing formatter.                                                 *)
(***************************************************************************)
\* a ButtonBuilder
Button(customId, url, label, style) ==
    [ customId |-> customId, url |-> url, label |-> label, style |-> style,
      disabled |-> FALSE, emoji |-> "" ]

\* a Discord.OutgoingMessage; keys holds the properties the object has
Payload(keys, content, embeds, components, files) ==
    [ keys |-> keys, content |-> content, embeds |-> embeds,
      components |-> components, files |-> files ]

Formatted(p) == [ thrown |-> FALSE, error |-> "", payload |-> p ]

Thrown(error) ==
    [ thrown |-> TRUE, error |-> error,
      payload |-> Payload({ }, "", << >>, << >>, << >>) ]

_textFormat(message) ==
    Formatted(Payload({ "content" }, message.text, << >>, << >>, << >>))

_quickRepliesFormat(message) ==
    LET row == ActionRow([ k \in 1..Len(message.quickReplies) |->
                   Button(message.quickReplies[k].payload, "",
                          message.quickReplies[k].title, "Primary") ])
    IN Formatted(Payload({ "content", "components" }, message.text, << >>,
                         << row >>, << >>))

_buttonsFormat(message) ==
    LET row == ActionRow([ k \in 1..Len(message.buttons) |->
                   IF message.buttons[k].type = "postback"
                   THEN Button(message.buttons[k].payload, "",
                               message.buttons[k].title, "Secondary")
                   ELSE Button("", message.buttons[k].url,
                               message.buttons[k].title, "Link") ])
    IN Formatted(Payload({ "content", "components" }, message.text, << >>,
                         << row >>, << >>))

\* an AttachmentBuilder on the public url of the attachment reference ref
File(ref) == [ attachment |-> ref ]

AttachmentRef == "attachment-ref"

_attachmentFormat(message) ==
    IF Len(message.quickReplies) > 0
    THEN LET row == ActionRow([ k \in 1..Len(message.quickReplies) |->
                        Button(message.quickReplies[k].title, "",
                               message.quickReplies[k].payload, "Primary") ])
         IN Formatted(Payload({ "files", "components" }, "", << >>, << row >>,
                              << File(AttachmentRef) >>))
    ELSE Formatted(Payload({ "files" }, "", << >>, << >>,
                           << File(AttachmentRef) >>))

\* the embed that never names the attached file
Embed_NoImage(element) ==
    [ title |-> element.title, url |-> element.url, image |-> "" ]

\* the embed built for one element; its image names the attached file
Embed(element) ==
    [ title |-> element.title,
      url |-> element.url,
      image |-> IF element.image # "" THEN "attachment://image.png" ELSE "" ]

\* the button built for one envelope button inside one element's row
CarouselButton(button, element) ==
    Button(IF button.type = "postback" THEN button.payload ELSE "",
           IF button.type = "web_url" THEN element.url ELSE "",
           button.title,
           IF button.type = "web_url" THEN "Link" ELSE "Secondary")

RECURSIVE CarouselFiles(_)
\* attachments.push(..) for the elements that have an image, in element order
CarouselFiles(elements) ==
    IF elements = << >> THEN << >>
    ELSE LET rest == CarouselFiles(Tail(elements))
         IN IF Head(elements).image # ""
            THEN << File(Head(elements).image) >> \o rest
            ELSE rest

_carouselFormat(message) ==
    LET n == Len(message.elements)
        hasButtons == message.optButtons # << >>
        \* setURL(element[fields.url]) of a web_url button validates its
        \* argument and throws when the element has no url
        urlMissing ==
            /\ hasButtons
            /\ \E b \in 1..Len(message.optButtons[1]) :
                   message.optButtons[1][b].type = "web_url"
            /\ \E i \in 1..n : message.elements[i].url = ""
        rows ==
            IF hasButtons
            THEN [ i \in 1..n |->
                     ActionRow([ b \in 1..Len(message.optButtons[1]) |->
                         CarouselButton(message.optButtons[1][b],
                                        message.elements[i]) ]) ]
            ELSE << >>
    IN IF urlMissing
       THEN Thrown("invalid url")
       ELSE Formatted(Payload({ "embeds", "components", "files" }, "",
                              [ i \in 1..n |-> Embed(message.elements[i]) ],
                              rows,
                              CarouselFiles(message.elements)))

ViewMoreRow == ActionRow(<< Button("VIEW_MORE", "", "View More", "Primary") >>)

\* the page test with >= in place of >
HasMorePages_Inclusive(message) ==
    /\ message.pagination # << >>
    /\ message.pagination[1].total - message.pagination[1].skip
           - message.pagination[1].limit >= 0

\* pagination is set and pagination.total - pagination.skip - pagination.limit > 0
HasMorePages(message) ==
    /\ message.pagination # << >>
    /\ message.pagination[1].total - message.pagination[1].skip
           - message.pagination[1].limit > 0

_listFormat(message) ==
    LET res == _carouselFormat(message)
    IN IF ~res.thrown /\ HasMorePages(message)
       THEN Formatted([ res.payload EXCEPT
                          !.components = res.payload.components \o << ViewMoreRow >> ])
       ELSE res

\* the switch whose default falls back to the text format
_formatMessage_DefaultText(envelope) ==
    CASE envelope.format = "attachment" -> _attachmentFormat(envelope)
      [] envelope.format = "buttons" -> _buttonsFormat(envelope)
      [] envelope.format = "carousel" -> _carouselFormat(envelope)
      [] envelope.format = "list" -> _listFormat(envelope)
      [] envelope.format = "quickReplies" -> _quickRepliesFormat(envelope)
      [] OTHER -> _textFormat(envelope)

_formatMessage(envelope) ==
    CASE envelope.format = "attachment" -> _attachmentFormat(envelope)
      [] envelope.format = "buttons" -> _buttonsFormat(envelope)
      [] envelope.format = "carousel" -> _carouselFormat(envelope)
      [] envelope.format = "list" -> _listFormat(envelope)
      [] envelope.format = "quickReplies" -> _quickRepliesFormat(envelope)
      [] envelope.format = "text" -> _textFormat(envelope)
      [] OTHER -> Thrown("Unknown message format")

(***************************************************************************)
(* sendMessage and sendListCarouselMessage.                                *)
(***************************************************************************)
\* what client.channels.fetch gives for the event's channel id
Channels == { "TextChannel", "CategoryChannel", "null", "rejects" }

BlockOptions == [ typing : BOOLEAN ]

ZeroWidthSpace == "u200B"

\* payload.components[i], undefined past the end of the array
ComponentAt(p, i) ==
    IF i \in 1..Len(p.components)
    THEN p.components[i]
    ELSE [ type |-> "undefined", components |-> << >> ]

\* resBody of the loop of sendListCarouselMessage for embed i
ElementBody(p, i) ==
    LET hasComponent == i \in 1..Len(p.components)
        hasFile == i \in 1..Len(p.files)
    IN Payload({ "content", "embeds" }
                  \cup (IF hasComponent THEN { "components" } ELSE { })
                  \cup (IF hasFile THEN { "files" } ELSE { }),
               ZeroWidthSpace,
               << p.embeds[i] >>,
               IF hasComponent THEN << p.components[i] >> ELSE << >>,
               IF hasFile THEN << p.files[i] >> ELSE << >>)

\* the body of the send that follows the loop for a list envelope
TrailingBody(p) ==
    Payload({ "components" }, "", << >>,
            << ComponentAt(p, Len(p.embeds) + 1) >>, << >>)

\* the bodies sendListCarouselMessage hands to discordChannel.send, in order
ListCarouselBodies(p, envelope) ==
    [ i \in 1..Len(p.embeds) |-> ElementBody(p, i) ]
        \o (IF envelope.format = "list" THEN << TrailingBody(p) >> ELSE << >>)

\* lastResId of sendListCarouselMessage when every send resolves: the id of
\* the send of the last embed, undefined (0) when the loop body never ran;
\* the k-th send of a call is answered with message id k
lastResId(p, envelope) == Len(p.embeds)

\* does sendMessage take the sendListCarouselMessage branch
IsListCarousel(envelope, p) ==
    envelope.format \in ListFormats /\ "embeds" \in p.keys

\* the bodies sendMessage hands to discordChannel.send, in order
SendBodies(envelope, p) ==
    IF IsListCarousel(envelope, p)
    THEN ListCarouselBodies(p, envelope)
    ELSE << p >>

\* mid of the resolved promise when every call resolves
ResolvedMid(envelope, p) ==
    IF IsListCarousel(envelope, p) THEN lastResId(p, envelope) ELSE 1

EmptyBody == Payload({ }, "", << >>, << >>, << >>)

\* a sendMessage that shows the typing indicator after its sends
PlannedCalls_TypingLast(envelope, options, p) ==
    [ k \in 1..Len(SendBodies(envelope, p)) |->
        [ op |-> "send", id |-> k, body |-> SendBodies(envelope, p)[k] ] ]
    \o (IF options.typing
        THEN << [ op |-> "sendTyping", id |-> 0, body |-> EmptyBody ] >>
        ELSE << >>)

\* the Discord calls sendMessage would issue if none of them failed
PlannedCalls(envelope, options, p) ==
    (IF options.typing
     THEN << [ op |-> "sendTyping", id |-> 0, body |-> EmptyBody ] >>
     ELSE << >>)
    \o [ k \in 1..Len(SendBodies(envelope, p)) |->
           [ op |-> "send", id |-> k, body |-> SendBodies(envelope, p)[k] ] ]

Resolved(mid) == [ status |-> "resolved", mid |-> mid, error |-> "" ]

Rejected(error) == [ status |-> "rejected", mid |-> 0, error |-> error ]

\* Discord refuses a message one of whose rows is not an action row holding
\* one to five components (an undefined entry of the components array is
\* sent as an empty row)
DiscordRefuses(body) ==
    \E r \in 1..Len(body.components) :
        \/ body.components[r].type = "undefined"
        \/ body.components[r].components = << >>
        \/ Len(body.components[r].components) > MaxRowComponents

\* discordChannel?.isTextBased() on what the fetch gave, null included:
\* with null passing the test
ChannelIsTextBased_NullPasses(channel) == channel # "CategoryChannel"

\* discordChannel?.isTextBased() on what the fetch gave
ChannelIsTextBased(channel) == channel = "TextChannel"

\* a planned call once it has been handed to Discord and is awaited
Issued(call) ==
    [ op |-> call.op, id |-> call.id, body |-> call.body, state |-> "pending" ]

\* a loop that hands every remaining call to Discord without awaiting any
NextCalls_AllAtOnce(planned, k) ==
    [ j \in 1..(Len(planned) - k) |-> Issued(planned[k + j]) ]

\* what the code issues when it resumes after the k-th planned call has
\* resolved: the next planned call, and nothing after the last one
NextCalls(planned, k) ==
    IF k < Len(planned) THEN << Issued(planned[k + 1]) >> ELSE << >>

\* positions of the calls of the last sendMessage that are awaited
InFlight == { k \in 1..Len(calls) : calls[k].state = "pending" }

\* sendMessage(event, envelope, options) up to its first await on a Discord
\* call: channel is what the fetch of the event's channel gives (the fetch
\* rejects while the client is not logged in)
sendMessage ==
    /\ Quiet
    /\ \E envelope \in Envelopes, options \in BlockOptions, channel \in Channels :
        LET formatted == _formatMessage(envelope)
            planned == PlannedCalls(envelope, options, formatted.payload)
        IN /\ clientToken = "" => channel = "rejects"
           /\ sent' = << [ envelope |-> envelope, options |-> options,
                           channel |-> channel ] >>
           /\ IF formatted.thrown
              THEN /\ payload' = << >>
                   /\ calls' = << >>
                   /\ result' = << Rejected(formatted.error) >>
              ELSE /\ payload' = << formatted.payload >>
                   /\ IF channel = "rejects"
                      THEN /\ calls' = << >>
                           /\ result' = << Rejected("Unknown Channel") >>
                      ELSE IF ~ChannelIsTextBased(channel)
                      THEN /\ calls' = << >>
                           /\ result' = << Rejected("Only text-based channels are supported") >>
                      ELSE IF planned = << >>
                      THEN \* a carousel without elements: nothing to send
                           /\ calls' = << >>
                           /\ result' = << Resolved(ResolvedMid(envelope, formatted.payload)) >>
                      ELSE /\ calls' = NextCalls(planned, 0)
                           /\ result' = << >>
           /\ UNCHANGED << settings, clientToken, listeners, initLog, inits, hostSide,
                           inboundLogsButCalls >>

\* an awaited call of the last sendMessage resolves: the code resumes, issues
\* the next call or, after the last one, returns the mid
CallResolved ==
    /\ sent # << >>
    /\ result = << >>
    /\ \E k \in InFlight :
        LET planned == PlannedCalls(sent[1].envelope, sent[1].options, payload[1])
            next == NextCalls(planned, Len(calls))
        IN /\ ~DiscordRefuses(calls[k].body)
           /\ calls' = [ calls EXCEPT ![k].state = "resolved" ] \o next
           /\ result' = IF next = << >>
                        THEN << Resolved(ResolvedMid(sent[1].envelope, payload[1])) >>
                        ELSE << >>
    /\ UNCHANGED << settings, clientToken, listeners, initLog, inits, hostSide,
                    inboundLogsButCalls, sent, payload >>

\* a sendMessage that swallows the failure of a call and goes on with the
\* next one
CallRejected_Continues ==
    /\ sent # << >>
    /\ result = << >>
    /\ \E k \in InFlight :
        LET planned == PlannedCalls(sent[1].envelope, sent[1].options, payload[1])
            next == NextCalls(planned, Len(calls))
        IN /\ calls' = [ calls EXCEPT ![k].state = "rejected" ] \o next
           /\ result' = IF next = << >>
                        THEN << Resolved(ResolvedMid(sent[1].envelope, payload[1])) >>
                        ELSE << >>
    /\ UNCHANGED << settings, clientToken, listeners, initLog, inits, hostSide,
                    inboundLogsButCalls, sent, payload >>

\* an awaited call of the last sendMessage rejects (the transport fails, or
\* Discord refuses the message): the error is logged and thrown again
CallRejected ==
    /\ sent # << >>
    /\ result = << >>
    /\ \E k \in InFlight :
        /\ calls' = [ calls EXCEPT ![k].state = "rejected" ]
        /\ result' = << Rejected("send failed") >>
    /\ UNCHANGED << settings, clientToken, listeners, initLog, inits, hostSide,
                    inboundLogsButCalls, sent, payload >>

SendNext ==
    \/ init
    \/ GetSettingsDone
    \/ DestroyDone
    \/ LoginDone
    \/ InitStepFailed
    \/ sendMessage
    \/ CallResolved
    \/ CallRejected
    \/ Settle

SendSpec == Init /\ [][SendNext]_vars

(***************************************************************************)
(* The host's calls on a wrapper: getPayload, getMessage, getUserData.     *)
(***************************************************************************)
\* _init: 'customId' in event, else 'content' in event, else unknown; a
\* custom id of "" stands for an event without that property
_init(raw) ==
    IF "customId" \in DOMAIN raw /\ raw.customId # ""
    THEN InitInteractionAdapter(raw)
    ELSE IF "content" \in DOMAIN raw
    THEN InitMessageAdapter(raw)
    ELSE [ eventType |-> "unknown", messageType |-> "", rawId |-> raw.id ]

\* an Attachment document of the host's attachment store
StoredAttachment(k) ==
    [ id |-> "att-" \o ToString(k),
      type |-> IF k = 1 THEN "image/png" ELSE "application/pdf",
      name |-> "file-" \o ToString(k) ]

\* _adapter.attachments: never assigned, or a list of stored attachments
AttachmentLists ==
    { [ set |-> FALSE, list |-> << >> ] }
    \cup { [ set |-> TRUE, list |-> [ k \in 1..n |-> StoredAttachment(k) ] ] :
             n \in 0..MaxAttachments }

AvatarUrl == "https://cdn.example/avatar.png"

\* the raw events a wrapper may be built on
WrappedEvents == RawMessages \cup RawInteractions \cup StrayInteractions

\* the wrappers the host may hold: new DiscordEventWrapper(handler, raw),
\* with setMessageType(message) applied (typeSet) when the listener published
\* the text of a message that has attachments; avatarUrl is what
\* guild.iconURL() gives in a guild text channel (null: "") and
\* displayAvatarURL() in a DM
Wrappers ==
    { w \in [ adapter : { _init(raw) : raw \in WrappedEvents }
                          \cup { setMessageType(_init(raw), "message") :
                                   raw \in RawMessages },
              raw : WrappedEvents,
              typeSet : BOOLEAN,
              channelType : { "DM", "GuildText", "PublicThread" },
              attachments : AttachmentLists,
              avatarUrl : { "", AvatarUrl } ] :
        /\ w.adapter = IF w.typeSet
                       THEN setMessageType(_init(w.raw), "message")
                       ELSE _init(w.raw)
        /\ w.typeSet => /\ "content" \in DOMAIN w.raw
                        /\ w.raw.attachments > 0
                        /\ w.raw.content # << >>
        /\ "content" \in DOMAIN w.raw => w.channelType = w.raw.channelType
        /\ w.channelType = "DM" => w.avatarUrl = AvatarUrl
        /\ w.channelType = "PublicThread" => w.avatarUrl = ""
        /\ w.adapter.messageType # "attachments" => ~w.attachments.set }

\* Attachment.getTypeByMime
getTypeByMime(mime) ==
    CASE mime = "image/png" -> "image"
      [] mime = "video/mp4" -> "video"
      [] mime = "audio/mpeg" -> "audio"
      [] OTHER -> "file"

\* the outcome of a call: a returned value or a thrown error
Returned(value) == [ thrown |-> FALSE, error |-> "", value |-> value ]

Raised(error) == [ thrown |-> TRUE, error |-> error, value |-> [ kind |-> "none" ] ]

\* { type, payload: { id } } of one stored attachment
AttachmentPayload(attachment) ==
    [ type |-> getTypeByMime(attachment.type), id |-> attachment.id ]

\* DiscordEventWrapper.getPayload; reading .length of a list that was never
\* assigned raises a TypeError
getPayload(w) ==
    IF w.adapter.messageType = "postback"
    THEN Returned([ kind |-> "string", text |-> w.raw.customId ])
    ELSE IF w.adapter.messageType = "attachments"
    THEN IF ~w.attachments.set
         THEN Raised("TypeError")
         ELSE IF w.attachments.list = << >>
         THEN Returned([ kind |-> "attachments",
                         attachment |-> [ type |-> "unknown", id |-> "null" ] ])
         ELSE Returned([ kind |-> "attachments",
                         attachment |-> AttachmentPayload(w.attachments.list[1]) ])
    ELSE Returned([ kind |-> "undefined" ])

\* components[0].components.find(({ customId }) => customId === postback)
\* a lookup that falls back on the first component of the row
FindComponent_First(row, postback) ==
    LET found == { k \in 1..Len(row) : row[k].customId = postback }
    IN IF row = << >> THEN << >>
       ELSE IF found = { } THEN << row[1] >>
       ELSE << row[CHOOSE k \in found : \A j \in found : k <= j] >>

FindComponent(row, postback) ==
    LET found == { k \in 1..Len(row) : row[k].customId = postback }
    IN IF found = { } THEN << >>
       ELSE << row[CHOOSE k \in found : \A j \in found : k <= j] >>

\* DiscordEventWrapper.getMessage
getMessage(w) ==
    CASE w.adapter.messageType = "message" ->
           Returned([ kind |-> "text", text |-> w.raw.content ])
      [] w.adapter.messageType = "postback" ->
           LET component == FindComponent(w.raw.row, w.raw.customId)
           IN IF component = << >>
              THEN Raised("TypeError")
              ELSE Returned([ kind |-> "postback",
                              postback |-> w.raw.customId,
                              text |-> component[1].label ])
      [] w.adapter.messageType = "attachments" ->
           IF ~w.attachments.set \/ w.attachments.list = << >>
           THEN Returned([ kind |-> "attachments",
                           serialized_text |-> "attachment:unknown",
                           attachment |-> << >> ])
           ELSE LET payloads == [ k \in 1..Len(w.attachments.list) |->
                                    AttachmentPayload(w.attachments.list[k]) ]
                IN Returned([ kind |-> "attachments",
                              serialized_text |->
                                  "attachment:" \o payloads[1].type \o ":"
                                      \o w.attachments.list[1].name,
                              attachment |-> payloads ])
      [] OTHER -> Raised("Unknown incoming message type")

\* DiscordEventWrapper.getSenderInfo: the guild's icon in a guild text
\* channel, the user's avatar in a DM
getSenderInfo(w) ==
    IF w.channelType = "GuildText"
    THEN Returned([ kind |-> "info", avatarUrl |-> w.avatarUrl ])
    ELSE IF w.channelType = "DM"
              /\ ("content" \in DOMAIN w.raw \/ w.raw.isButton)
    THEN Returned([ kind |-> "info", avatarUrl |-> w.avatarUrl ])
    ELSE Raised("Unable to extract sender profile!")

\* how the download and the storing of the avatar go
AvatarFetches == { "stored", "downloadFails", "storeFails" }

\* the result of getUserData(event): every error raised in its try block is
\* logged and thrown again
SubscriberProfile(w, fetch) ==
    LET info == getSenderInfo(w)
    IN IF info.thrown THEN Raised(info.error)
       ELSE IF info.value.avatarUrl # "" /\ fetch # "stored"
       THEN Raised(fetch)
       ELSE Returned([ kind |-> "subscriber",
                       avatar |-> IF info.value.avatarUrl # ""
                                  THEN "avatar-id" ELSE "null" ])

\* a listener or the host builds a wrapper on a raw event and holds it
NewDiscordEventWrapper ==
    /\ Quiet
    /\ \E w \in Wrappers :
        /\ event' = << w >>
        /\ reply' = << >>
    /\ UNCHANGED << settings, clientToken, listeners, initLog, inits, inboundLogs,
                    outbound >>

HostGetPayload ==
    /\ event # << >>
    /\ reply' = << [ call |-> "getPayload", input |-> "",
                     outcome |-> getPayload(event[1]) ] >>
    /\ UNCHANGED << settings, clientToken, listeners, initLog, inits, inboundLogs,
                    outbound, event >>

HostGetMessage ==
    /\ event # << >>
    /\ reply' = << [ call |-> "getMessage", input |-> "",
                     outcome |-> getMessage(event[1]) ] >>
    /\ UNCHANGED << settings, clientToken, listeners, initLog, inits, inboundLogs,
                    outbound, event >>

\* getUserData(event), run to the settling of its promise
getUserData ==
    /\ event # << >>
    /\ \E fetch \in AvatarFetches :
        reply' = << [ call |-> "getUserData", input |-> fetch,
                      outcome |-> SubscriberProfile(event[1], fetch) ] >>
    /\ UNCHANGED << settings, clientToken, listeners, initLog, inits, inboundLogs,
                    outbound, event >>

HostNext ==
    \/ NewDiscordEventWrapper
    \/ HostGetPayload
    \/ HostGetMessage
    \/ getUserData
    \/ Settle

HostSpec == Init /\ [][HostNext]_vars

(***************************************************************************)
(* Properties of the inbound side (checked under Spec).                    *)
(***************************************************************************)
\* the publications raw event e has led to, in the order they were made
EventPublications(e) == SelectSeq(bus, LAMBDA p : p.raw = e.id)

\* those of them that listener run made
RunPublications(e, run) ==
    SelectSeq(bus, LAMBDA p : p.raw = e.id /\ p.run = run)

\* the raw message survives the listener's filters: it is not a system
\* message, its channel holds messages, and in a guild text channel it
\* mentions the bot
PassesFilters(m) ==
    /\ ~m.system
    /\ m.channelType # "GuildCategory"
    /\ (m.channelType = "GuildText" => m.mentionsBot)

\* the text left once the mention is extracted is not empty: outside a guild
\* text channel the content is taken as it is; inside, mentions are removed
\* and white space is trimmed, so something is left exactly when there is a
\* letter
HasText(m) ==
    IF m.channelType = "GuildText"
    THEN \E k \in 1..Len(m.content) : m.content[k] = "x"
    ELSE m.content # << >>

\* what C1 says of the runs of the listener on raw message m
TwoEvents(m) ==
    \A run \in 1..dispatched :
        LET pubs == RunPublications(m, run)
        IN /\ Len(pubs) = 2
           /\ pubs[1].messageType = "message"
           /\ pubs[1].id = m.id
           /\ pubs[2].messageType = "attachments"
           /\ pubs[2].id = "attachment-" \o m.id
           /\ pubs[1].id # pubs[2].id

C2_GuildWithoutMentionDropped ==
    \A k \in 1..Len(inbox) :
        (inbox[k].channelType \in GuildChannelTypes /\ ~inbox[k].mentionsBot)
            => EventPublications(inbox[k]) = << >>

CallsOf(op) == { k \in 1..Len(calls) : calls[k].op = op }

\* C4 (as claimed): however many init() calls have completed, a raw event is
\* handled once: a raw message is published as often as one listener run
\* publishes it, and a button click leads to at most one acknowledgement,
\* one row rewrite and one publication.
C4_InitIdempotent ==
    /\ \A k \in 1..Len(inbox) :
           Len(EventPublications(inbox[k]))
               = Len(MessageCreateListener(inbox[k], 1))
    /\ \A k \in 1..Len(clicked) :
           /\ Cardinality(CallsOf("deferUpdate")) <= 1
           /\ Cardinality(CallsOf("editReply")) <= 1
           /\ Len(EventPublications(clicked[k])) <= 1

C15_BotMessagesOnlyEcho ==
    \A k \in 1..Len(inbox) :
        inbox[k].authorBot =>
            \A j \in 1..Len(bus) :
                /\ bus[j].hook = "hook:chatbot:echo"
                /\ bus[j].eventType = "echo"

\* positions in calls of the calls of kind op issued by listener run
RunCalls(run, op) ==
    { c \in 1..Len(calls) : calls[c].op = op /\ calls[c].run = run }

\* C20: for a button interaction, the acknowledgement (deferUpdate) is the
\* first call every listener run issues, before any rewrite and so before
\* anything is published; a run issues the row rewrite (editReply) only once
\* its acknowledgement has resolved; the postback event is published at most
\* once for the interaction, and a run has published it exactly when its
\* rewrite has resolved.
C20_AckRewritePublish ==
    \A k \in 1..Len(clicked) :
        clicked[k].isButton =>
            /\ Len(EventPublications(clicked[k])) <= 1
            /\ \A run \in 1..dispatched :
                   LET acks == RunCalls(run, "deferUpdate")
                       rewrites == RunCalls(run, "editReply")
                       pubs == RunPublications(clicked[k], run)
                   IN /\ Cardinality(acks) = 1
                      /\ \A a \in acks : a <= dispatched
                      /\ Cardinality(rewrites) <= 1
                      /\ \A a \in acks, r \in rewrites :
                             a < r /\ calls[a].state = "resolved"
                      /\ Len(pubs) <= 1
                      /\ pubs # << >> <=>
                             \E r \in rewrites : calls[r].state = "resolved"
                      /\ \A j \in 1..Len(pubs) :
                             /\ pubs[j].messageType = "postback"
                             /\ pubs[j].hook = "hook:chatbot:message"

C20_Witness ==
    /\ clicked # << >>
    /\ inbox = << >>
    /\ clicked[1].isButton
    /\ dispatched = 2
    /\ pending = << >>
    /\ Len(bus) = 1
    /\ bus[1].messageType = "postback"
    /\ Cardinality(CallsOf("deferUpdate")) = 2
    /\ Cardinality(CallsOf("editReply")) = 1

\* C11: init() always resolves and never rejects, whatever fails inside it
\* (the retrieval of the settings, a blank bot token or app id,
\* client.destroy, client.login); the failure is only logged.
C11_InitNeverRejects ==
    \A k \in 1..Len(initLog) : initLog[k] = "resolved"

\* an init() has registered listeners, and the init() that ran last, with
\* both credentials set, left the client logged out: its client.destroy or
\* its client.login failed
C11_Witness ==
    /\ initLog = << "resolved" >>
    /\ inits = << >>
    /\ listeners >= 1
    /\ settings.bot_token # ""
    /\ settings.app_id # ""
    /\ clientToken = ""

\* C21 (as claimed): the events of two raw events of one channel are
\* published in the order the raw events arrived, also when the first is a
\* button click, whose listener awaits the acknowledgement and the row
\* rewrite, and the second a plain message: the publication of the click
\* precedes every publication of the message (a message is on record next to
\* a click only when it arrived during the handling of that click, i.e.
\* after it).
C21_PublishedInArrivalOrder ==
    \A k \in 1..Len(clicked), m \in 1..Len(inbox) :
        \A i, j \in 1..Len(bus) :
            (bus[i].raw = clicked[k].id /\ bus[j].raw = inbox[m].id) => i < j

\* C26 (as claimed): a wrapped event is published on the event bus only when
\* its eventType is not unknown, and then under hook:chatbot:<eventType>; a
\* raw event classified unknown leads to no publication.
C26_PublishedUnderOwnEventType ==
    \A j \in 1..Len(bus) :
        /\ bus[j].eventType # "unknown"
        /\ bus[j].hook = "hook:chatbot:" \o bus[j].eventType

\* C23 (as claimed): once the settings updates have been processed (no init()
\* is in flight any more), the client is either disconnected or logged in with
\* the bot token the settings hold now; it is never left connected with
\* former credentials, a blank new credential or a failed login included.
C23_NoStaleLogin ==
    inits = << >> => clientToken \in { "", settings.bot_token }

\* the init() runs that have issued client.login and await it
LoggingIn == { k \in 1..Len(inits) : inits[k].pc = "login" }

\* C24 (as claimed): two init() runs started by settings updates in quick
\* succession never interleave their teardown and login: client.login is
\* never awaited by two runs at once, nor by a run while the client is
\* logged in (no destroy was completed since that login).
C24_LoginAfterOwnDestroy ==
    /\ Cardinality(LoggingIn) <= 1
    /\ LoggingIn # { } => clientToken = ""

(***************************************************************************)
(* Properties of the outbound side (checked under SendSpec).               *)
(***************************************************************************)
KnownFormats ==
    { "text", "buttons", "quickReplies", "attachment", "list", "carousel" }

\* C5: sendMessage on an envelope whose format is none of text, buttons,
\* quickReplies, attachment, list, carousel rejects, and issues neither a
\* typing indicator nor a send.
C5_UnknownFormatRejected ==
    \A k \in 1..Len(sent) :
        sent[k].envelope.format \notin KnownFormats =>
            /\ result # << >>
            /\ result[1].status = "rejected"
            /\ result[1].error = "Unknown message format"
            /\ calls = << >>

C5_Witness ==
    /\ sent # << >>
    /\ sent[1].envelope.format = "unsupported_format"
    /\ sent[1].options.typing
    /\ sent[1].channel = "TextChannel"
    /\ result # << >>
    /\ result[1].status = "rejected"

\* the formatted envelope is a carousel whose elements all have an image
CarouselWithImages ==
    /\ sent # << >>
    /\ payload # << >>
    /\ sent[1].envelope.format = "carousel"
    /\ \A i \in 1..Len(sent[1].envelope.elements) :
           sent[1].envelope.elements[i].image # ""

\* embeds and files of the payload have one entry per element, entry i made
\* from element i
EmbedsAndFilesAligned ==
    LET es == sent[1].envelope.elements
        p == payload[1]
    IN /\ Len(p.embeds) = Len(es)
       /\ Len(p.files) = Len(es)
       /\ \A i \in 1..Len(es) :
              /\ p.embeds[i].title = es[i].title
              /\ p.embeds[i].image # ""
              /\ p.files[i].attachment = es[i].image

\* row i of the payload is the button row of element i: one button per
\* envelope button, a link button carrying element i's url
RowsAligned ==
    LET es == sent[1].envelope.elements
        bs == sent[1].envelope.optButtons[1]
        p == payload[1]
    IN /\ Len(p.components) = Len(es)
       /\ \A i \in 1..Len(es) :
              /\ Len(p.components[i].components) = Len(bs)
              /\ \A b \in 1..Len(bs) :
                     /\ p.components[i].components[b].label = bs[b].title
                     /\ bs[b].type = "web_url" =>
                            p.components[i].components[b].url = es[i].url
                     /\ bs[b].type = "postback" =>
                            p.components[i].components[b].customId = bs[b].payload

Sends == SelectSeq(calls, LAMBDA c : c.op = "send")

HasCustomId(row, id) ==
    \E b \in 1..Len(row.components) : row.components[b].customId = id

\* C7 (as claimed): the Discord message sent for element i of a list or
\* carousel holds element i's embed, element i's own button row when the
\* envelope defines buttons and no row otherwise, element i's own image file
\* when it has an image and no file otherwise.
C7_ElementMessageHoldsOwnParts ==
    \A k \in 1..Len(sent) :
        LET es == sent[k].envelope.elements
            ob == sent[k].envelope.optButtons
        IN sent[k].envelope.format \in ListFormats =>
               \A i \in 1..Len(es) :
                   i <= Len(Sends) =>
                       LET body == Sends[i].body
                       IN /\ Len(body.embeds) = 1
                          /\ body.embeds[1].title = es[i].title
                          /\ IF es[i].image # ""
                             THEN /\ Len(body.files) = 1
                                  /\ body.files[1].attachment = es[i].image
                             ELSE body.files = << >>
                          /\ IF ob # << >>
                             THEN /\ Len(body.components) = 1
                                  /\ ~HasCustomId(body.components[1], "VIEW_MORE")
                                  /\ \A b \in 1..Len(body.components[1].components) :
                                         body.components[1].components[b].url
                                             \in { "", es[i].url }
                             ELSE body.components = << >>

\* rows of the payload that hold the View More button
ViewMoreRows(p) ==
    { r \in 1..Len(p.components) : HasCustomId(p.components[r], "VIEW_MORE") }

\* C8: the payload of a list envelope holds the per-element rows (one per
\* element when the envelope defines buttons, none otherwise) followed by
\* exactly one row with the single button View More / VIEW_MORE when
\* pagination.total - pagination.skip - pagination.limit > 0, and by nothing
\* when that difference is <= 0 or there is no pagination.
C8_ViewMoreRow ==
    \A k \in 1..Len(sent) :
        (sent[k].envelope.format = "list" /\ payload # << >>) =>
            LET env == sent[k].envelope
                p == payload[1]
                perElement ==
                    IF env.optButtons # << >> THEN Len(env.elements) ELSE 0
                more ==
                    /\ env.pagination # << >>
                    /\ env.pagination[1].total
                           > env.pagination[1].skip + env.pagination[1].limit
            IN IF more
               THEN /\ Len(p.components) = perElement + 1
                    /\ ViewMoreRows(p) = { perElement + 1 }
                    /\ Len(p.components[perElement + 1].components) = 1
                    /\ p.components[perElement + 1].components[1].label = "View More"
               ELSE /\ Len(p.components) = perElement
                    /\ ViewMoreRows(p) = { }

C8_Witness ==
    /\ sent # << >>
    /\ payload # << >>
    /\ sent[1].envelope.format = "list"
    /\ sent[1].envelope.pagination = << [ total |-> 50, skip |-> 0, limit |-> 10 ] >>
    /\ Len(sent[1].envelope.elements) = 2
    /\ sent[1].envelope.optButtons # << >>
    /\ ViewMoreRows(payload[1]) = { 3 }

\* C9 (as claimed): when a list or carousel envelope has been delivered as
\* several Discord messages, the trailing pagination message of a list
\* included, mid is the id of the last message sent.
C9_MidIsLastSentMessage ==
    \A k \in 1..Len(sent) :
        ( /\ sent[k].envelope.format \in ListFormats
          /\ result # << >>
          /\ result[1].status = "resolved"
          /\ Len(Sends) >= 2 ) =>
            result[1].mid = Sends[Len(Sends)].id

\* C12: sendMessage rejects when the channel resolved from the triggering
\* event is missing (null) or not text-capable, with the error "Only
\* text-based channels are supported" whenever formatting got as far as the
\* fetch, and in that case it issues no typing indicator and no send.
C12_ChannelUnavailable ==
    \A k \in 1..Len(sent) :
        sent[k].channel \in { "null", "CategoryChannel" } =>
            /\ result # << >>
            /\ result[1].status = "rejected"
            /\ payload # << >> =>
                   result[1].error = "Only text-based channels are supported"
            /\ calls = << >>

C12_Witness ==
    /\ sent # << >>
    /\ sent[1].channel = "null"
    /\ sent[1].options.typing
    /\ sent[1].envelope.format = "text"
    /\ result # << >>
    /\ result[1].error = "Only text-based channels are supported"

\* C14: for a carousel / list envelope with elements e1..eN the per-element
\* sends are issued in element order, a call is issued only once every call
\* before it has resolved, so that at no time two calls of one sendMessage
\* are in flight, and a sendMessage that resolves has issued all N of them.
C14_SendsSequential ==
    \A k \in 1..Len(sent) :
        LET es == sent[k].envelope.elements
        IN sent[k].envelope.format \in ListFormats =>
               /\ Cardinality(InFlight) <= 1
               /\ \A j \in 1..Len(calls) :
                      j < Len(calls) => calls[j].state = "resolved"
               /\ \A i \in 1..Len(es) :
                      i <= Len(Sends) =>
                          /\ Len(Sends[i].body.embeds) = 1
                          /\ Sends[i].body.embeds[1].title = es[i].title
               /\ (result # << >> /\ result[1].status = "resolved") =>
                      Len(Sends) >= Len(es)

C14_Witness ==
    /\ sent # << >>
    /\ sent[1].envelope.format = "carousel"
    /\ Len(sent[1].envelope.elements) = 2
    /\ ~sent[1].options.typing
    /\ Len(calls) = 2
    /\ calls[1].state = "resolved"
    /\ calls[2].state = "pending"
    /\ calls[2].body.embeds[1].title = TitleOf(2)

\* the quick-reply buttons of row are made from the quick replies qs: custom
\* id from the payload, label from the title
QuickReplyRow(row, qs) ==
    /\ Len(row.components) = Len(qs)
    /\ \A b \in 1..Len(qs) :
           /\ row.components[b].customId = qs[b].payload
           /\ row.components[b].label = qs[b].title

\* C18 (as claimed): every quick-reply button the formatter produces, in the
\* quickReplies format and in the attachment format with quick replies, has
\* its custom id equal to the reply's payload and its label equal to the
\* reply's title.
C18_QuickReplyButtons ==
    \A k \in 1..Len(sent) :
        ( /\ sent[k].envelope.format \in { "quickReplies", "attachment" }
          /\ sent[k].envelope.quickReplies # << >>
          /\ payload # << >> ) =>
            /\ Len(payload[1].components) = 1
            /\ QuickReplyRow(payload[1].components[1], sent[k].envelope.quickReplies)

\* the body of a send holds the View More button
HasViewMore(body) ==
    \E r \in 1..Len(body.components) :
        body.components[r].type = "ActionRow"
            /\ HasCustomId(body.components[r], "VIEW_MORE")

\* C19 (as claimed): when sendMessage delivers a list envelope of N elements,
\* the View More button is never part of the message of an element; when
\* total - skip - limit > 0 it is delivered by one message sent after the N
\* element messages, and otherwise no message is sent after them.
C19_ViewMoreTrailing ==
    \A k \in 1..Len(sent) :
        LET env == sent[k].envelope
            n == Len(env.elements)
            more ==
                /\ env.pagination # << >>
                /\ env.pagination[1].total - env.pagination[1].skip
                       - env.pagination[1].limit > 0
        IN env.format = "list" =>
               /\ \A i \in 1..n : i <= Len(Sends) => ~HasViewMore(Sends[i].body)
               /\ Len(Sends) <= n + (IF more THEN 1 ELSE 0)
               /\ (more /\ result # << >> /\ result[1].status = "resolved") =>
                      /\ Len(Sends) = n + 1
                      /\ HasViewMore(Sends[n + 1].body)

\* C22: when a call to Discord fails during sendMessage (the k-th send of a
\* carousel or list included), sendMessage rejects with that error, issues no
\* call after the failed one and never issues the failed send again.
C22_FailedSendStops ==
    \A k \in 1..Len(calls) :
        /\ calls[k].state = "rejected" =>
               /\ sent # << >>
               /\ k = Len(calls)
               /\ result = << Rejected("send failed") >>
        /\ \A j \in 1..Len(calls) :
               (j # k /\ calls[j].op = "send" /\ calls[k].op = "send") =>
                   calls[j].id # calls[k].id

\* the second send of a carousel of two elements failed after the first
\* had resolved
C22_Witness ==
    /\ sent # << >>
    /\ sent[1].envelope.format = "carousel"
    /\ Len(sent[1].envelope.elements) = 2
    /\ Len(calls) = 2
    /\ calls[1].op = "send" /\ calls[1].state = "resolved"
    /\ calls[2].op = "send" /\ calls[2].state = "rejected"
    /\ result # << >>
    /\ result[1].status = "rejected"

\* C25: when options.typing is set, sendMessage issues the typing indicator
\* as its first call to Discord and awaits it before the first send; when it
\* is not set, no typing indicator is issued.
C25_TypingBeforeFirstSend ==
    \A s \in 1..Len(sent) :
        LET typings == { k \in 1..Len(calls) : calls[k].op = "sendTyping" }
        IN IF sent[s].options.typing
           THEN /\ (payload # << >> /\ ChannelIsTextBased(sent[s].channel)) =>
                       calls # << >>
                /\ calls # << >> =>
                       /\ typings = { 1 }
                       /\ Len(calls) > 1 => calls[1].state = "resolved"
           ELSE typings = { }

\* the typing indicator was shown and resolved, then the message was sent
C25_Witness ==
    /\ sent # << >>
    /\ sent[1].options.typing
    /\ Len(calls) = 2
    /\ calls[1].op = "sendTyping" /\ calls[1].state = "resolved"
    /\ calls[2].op = "send" /\ calls[2].state = "resolved"

\* the button has a url or a custom id, not both, and is link-style exactly
\* when it has a url
UrlOrCustomId(b) ==
    /\ (b.url # "") # (b.customId # "")
    /\ b.style = "Link" <=> b.url # ""

\* the button built for envelope button eb is as C27 says
BuiltAsClaimed(b, eb) ==
    /\ UrlOrCustomId(b)
    /\ eb.type = "web_url" => b.style = "Link"
    /\ eb.type = "postback" => b.customId = eb.payload

\* C27 (as claimed): the formatter gives every button it builds, in the
\* buttons format and in the row of every list or carousel element, exactly
\* one of a url and a custom id: a web_url button becomes a link-style button
\* with a url and no custom id, a postback button carries its payload as
\* custom id and no url; this holds also for the elements whose url is unset
\* or empty, i.e. for them too the formatter returns such rows.
C27_ButtonsCarryUrlOrCustomId ==
    \A s \in 1..Len(sent) :
        LET message == sent[s].envelope
        IN /\ message.format = "buttons" =>
                  /\ payload # << >>
                  /\ Len(payload[1].components) = 1
                  /\ Len(payload[1].components[1].components) = Len(message.buttons)
                  /\ \A b \in 1..Len(message.buttons) :
                         BuiltAsClaimed(payload[1].components[1].components[b],
                                        message.buttons[b])
           /\ (message.format \in ListFormats /\ message.optButtons # << >>) =>
                  /\ payload # << >>
                  /\ \A i \in 1..Len(message.elements) :
                         /\ Len(payload[1].components[i].components)
                                = Len(message.optButtons[1])
                         /\ \A b \in 1..Len(message.optButtons[1]) :
                                BuiltAsClaimed(payload[1].components[i].components[b],
                                               message.optButtons[1][b])

\* C29 (as claimed): no action row the formatter builds for quick replies
\* (quickReplies format and attachment format) holds more than five
\* components, however many quick replies the envelope has.
C29_QuickReplyRowsWithinLimit ==
    \A s \in 1..Len(sent) :
        sent[s].envelope.format \in { "quickReplies", "attachment" } =>
            \A p \in 1..Len(payload) :
                \A r \in 1..Len(payload[p].components) :
                    Len(payload[p].components[r].components) <= MaxRowComponents

(***************************************************************************)
(* Properties of the host's calls (checked under HostSpec).                *)
(***************************************************************************)
\* C13 (as claimed): when the sender has an avatar url and downloading or
\* storing the avatar fails, getUserData still resolves, with a subscriber
\* profile whose avatar is null.
C13_AvatarFailureTolerated ==
    \A k \in 1..Len(reply) :
        ( /\ reply[k].call = "getUserData"
          /\ reply[k].input # "stored"
          /\ ~getSenderInfo(event[1]).thrown
          /\ getSenderInfo(event[1]).value.avatarUrl # "" ) =>
            /\ ~reply[k].outcome.thrown
            /\ reply[k].outcome.value.avatar = "null"

\* C16 (as claimed): on a wrapper whose eventType is unknown, getMessage()
\* and getPayload() both fail with an error instead of returning a value.
C16_UnknownAccessorsFail ==
    \A k \in 1..Len(reply) :
        ( /\ reply[k].call \in { "getMessage", "getPayload" }
          /\ event[1].adapter.eventType = "unknown" ) =>
            reply[k].outcome.thrown

\* C17 (as claimed): on an attachments-type event whose attachments list is
\* empty or was never set, getPayload() and getMessage() both return the
\* unknown-attachment placeholder and neither of them throws.
C17_NoAttachmentsPlaceholder ==
    \A k \in 1..Len(reply) :
        ( /\ reply[k].call \in { "getMessage", "getPayload" }
          /\ event[1].adapter.messageType = "attachments"
          /\ event[1].attachments.list = << >> ) =>
            /\ ~reply[k].outcome.thrown
            /\ reply[k].outcome.value.kind = "attachments"
            /\ reply[k].call = "getPayload" =>
                   reply[k].outcome.value.attachment.type = "unknown"
            /\ reply[k].call = "getMessage" =>
                   reply[k].outcome.value.serialized_text = "attachment:unknown"

\* C28: getMessage() on a postback event returns the custom id as postback
\* and, as text, the label of the component of the first row of the clicked
\* message whose custom id equals it; when no component of that row has that
\* custom id, getMessage() fails with an error and returns no message.
C28_PostbackLabelOrError ==
    \A k \in 1..Len(reply) :
        ( /\ reply[k].call = "getMessage"
          /\ event[1].adapter.messageType = "postback" ) =>
            LET row == event[1].raw.row
                matches == { c \in 1..Len(row) :
                               row[c].customId = event[1].raw.customId }
            IN IF matches = { }
               THEN /\ reply[k].outcome.thrown
                    /\ reply[k].outcome.value.kind = "none"
               ELSE /\ ~reply[k].outcome.thrown
                    /\ reply[k].outcome.value.postback = event[1].raw.customId
                    /\ \E c \in matches :
                           reply[k].outcome.value.text = row[c].label

\* getMessage() was called for a click whose custom id no button of the
\* first row has, though that row holds a button
C28_Witness ==
    /\ reply # << >>
    /\ reply[1].call = "getMessage"
    /\ event[1].adapter.messageType = "postback"
    /\ event[1].raw.row # << >>
    /\ \A c \in 1..Len(event[1].raw.row) :
           event[1].raw.row[c].customId # event[1].raw.customId
    /\ reply[1].outcome.thrown

\* C30: the wrapper classifies a raw event by the first match: a customId
\* field gives eventType message and messageType postback; otherwise a
\* content field gives eventType echo when the author is a bot and message
\* when not, with messageType attachments when at least one attachment is
\* present and message when none is; otherwise the eventType is unknown and
\* the messageType is reported as unknown.  (A wrapper whose message type the
\* listener has reset with setMessageType is past its classification.)
C30_ClassifiedByFirstMatch ==
    \A k \in 1..Len(event) :
        LET raw == event[k].raw
            adapter == event[k].adapter
        IN ~event[k].typeSet =>
            IF "customId" \in DOMAIN raw /\ raw.customId # ""
            THEN /\ getEventType(adapter) = "message"
                 /\ getMessageType(adapter) = "postback"
            ELSE IF "content" \in DOMAIN raw
            THEN /\ getEventType(adapter) = IF raw.authorBot THEN "echo" ELSE "message"
                 /\ getMessageType(adapter) =
                        IF raw.attachments >= 1 THEN "attachments" ELSE "message"
            ELSE /\ getEventType(adapter) = "unknown"
                 /\ getMessageType(adapter) = "unknown"

\* a wrapper was built on an interaction that is no button click and has
\* neither custom id nor content
C30_Witness ==
    /\ event # << >>
    /\ ~event[1].typeSet
    /\ "content" \notin DOMAIN event[1].raw
    /\ ~event[1].raw.isButton
    /\ getEventType(event[1].adapter) = "unknown"
    /\ getMessageType(event[1].adapter) = "unknown"

====
